---- MODULE Spec2Model ----
(***************************************************************************)
(* NSF memory subsystem of software/esp32/main/nsf.c: the single active    *)
(* instance, the 6502 bus (read6502 / write6502), the ten-slot LRU cache   *)
(* of 4 KiB ROM banks (nsf_load_rom_bank, mark_rom_bank_used), the two ROM *)
(* loaders and the playback driver.                                        *)
(*                                                                         *)
(* Pointers into the ROM buffer are kept as slot indices (rom + 4096 * s), *)
(* NULL is -1.  The contents of a 4 KiB slot are kept as the description   *)
(* of the fread that filled it, [dst, off, n]: slot byte o is file byte    *)
(* off + (o - dst) when dst <= o < dst + n and 0 otherwise.                *)
(***************************************************************************)
EXTENDS Integers, Sequences, FiniteSets, TLC

ROM_BANK_SIZE == 4096
ROM_BANK_COUNT == 10
ROM_BLOCK_COUNT == 8

ESP_OK == 0
ESP_FAIL == -1
ESP_ERR_INVALID_ARG == 258
ESP_ERR_INVALID_STATE == 259

NULL == -1

BANK_REG_FIRST == 24568   \* $5FF8
BANK_REG_LAST == 24575    \* $5FFF
SYNC_PC == 4103           \* $1007

Slots == 0..(ROM_BANK_COUNT - 1)
Blocks == 0..(ROM_BLOCK_COUNT - 1)

Min(a, b) == IF a < b THEN a ELSE b
Max(a, b) == IF a > b THEN a ELSE b

(***************************************************************************)
(* The files on the medium.  A file is its header fields and its size;     *)
(* "missing" cannot be opened and "bad" does not start with the magic.     *)
(***************************************************************************)
MaxInstances == 2

InstanceIds == 1..MaxInstances

FileNames == {"banked", "flat", "bad", "missing"}

FileExists(f) == f # "missing"

FileMagicOk(f) == f \in {"banked", "flat", "rts", "padded", "highpad", "seq"}

FileSize(f) ==
    CASE f = "banked" -> 128 + 13 * 4096
      [] f = "flat" -> 128 + 8192
      [] f = "bad" -> 128
      [] f = "rts" -> 128 + 4
      [] f = "padded" -> 128 + 16
      [] f = "highpad" -> 128 + 12288
      [] f = "seq" -> 128 + 11 * 4096
      [] OTHER -> 0

\* "padded" loads at $8010, "highpad" (bankswitched) at $8F00.
FileLoadAddress(f) ==
    CASE f = "padded" -> 32784
      [] f = "highpad" -> 36608
      [] OTHER -> 32768

FileInitAddress(f) == 32768

FilePlayAddress(f) == 32771

FileBankswitchInit(f) ==
    CASE f = "banked" -> [i \in Blocks |-> i + 1]
      [] f = "highpad" -> [i \in Blocks |-> IF i < 3 THEN i ELSE 3]
      [] f = "seq" -> [i \in Blocks |-> i]
      [] OTHER -> [i \in Blocks |-> 0]

\* The byte stored at absolute offset k of a file (k < FileSize).  The body
\* of "rts" is RTS instructions ($60): its INIT and its PLAY return at once.
FileByte(f, k) == IF f = "rts" THEN 96 ELSE (k % 251) + 1

\* fread(buf, 1, count, file) at position pos: the number of bytes delivered.
fread(f, pos, count) == Min(count, Max(0, FileSize(f) - pos))

ZeroHeader ==
    [load_address |-> 0, init_address |-> 0, play_address |-> 0,
     bankswitch_init |-> [i \in Blocks |-> 0]]

nsf_read_header_impl(f) ==
    IF FileSize(f) < 128 \/ ~FileMagicOk(f)
    THEN [ret |-> -1, header |-> ZeroHeader]
    ELSE [ret |-> ESP_OK,
          header |-> [load_address |-> FileLoadAddress(f),
                      init_address |-> FileInitAddress(f),
                      play_address |-> FilePlayAddress(f),
                      bankswitch_init |-> FileBankswitchInit(f)]]

nsf_has_bank_switching(header) ==
    \E i \in Blocks : header.bankswitch_init[i] # 0

(***************************************************************************)
(* nsf_nes_memory_t.  ram and apu_regs are kept at the sampled addresses.  *)
(***************************************************************************)
RamAddrs == {0, 508, 509, 2047}   \* $01FC, $01FD: the stack of the bootstrap
ApuAddrs == {16384, 16406, 16407}   \* $4000, $4016, $4017

ZeroSlot == [dst |-> 0, off |-> 0, n |-> 0]

\* The struct after bzero: every pointer NULL, every integer 0.
ZeroMemory ==
    [ram |-> [a \in RamAddrs |-> 0],
     prg |-> [k \in 0..16 |-> 0],
     apu_regs |-> [a \in ApuAddrs |-> 0],
     bank_regs |-> [i \in Blocks |-> 0],
     int_vecs |-> [k \in 0..5 |-> 0],
     rom_block |-> [i \in Blocks |-> NULL],
     rom_block_bank_id |-> [i \in Blocks |-> 0],
     rom |-> "null",
     rom_data |-> [s \in Slots |-> ZeroSlot],
     rom_bank_id |-> [s \in Slots |-> 0],
     rom_bank_loaded |-> [s \in Slots |-> 0],
     rom_bank_use_order |-> [s \in Slots |-> 0]]

\* Number of 4 KiB slots inside the buffer nes_memory.rom points to.
RomSlots(rom) ==
    CASE rom = "flat" -> 32768 \div 4096
      [] rom = "banks" -> (ROM_BANK_SIZE * ROM_BANK_COUNT) \div 4096
      [] OTHER -> 0

SlotByte(f, d, o) ==
    IF d.dst <= o /\ o < d.dst + d.n THEN FileByte(f, d.off + (o - d.dst)) ELSE 0

(***************************************************************************)
(* mark_rom_bank_used, on the use-order array alone.                       *)
(***************************************************************************)
\* The lowest index 1..9 holding the bank, or -1.
FindInUseOrder(order, bank) ==
    IF \E i \in 1..(ROM_BANK_COUNT - 1) : order[i] = bank
    THEN CHOOSE i \in 1..(ROM_BANK_COUNT - 1) :
            /\ order[i] = bank
            /\ \A j \in 1..(i - 1) : order[j] # bank
    ELSE -1

mark_rom_bank_used(order, bank) ==
    IF order[0] = bank
    THEN order
    ELSE LET i == FindInUseOrder(order, bank) IN
         IF i # -1
         THEN [j \in Slots |->
                 IF j = 0 THEN bank ELSE IF j <= i THEN order[j - 1] ELSE order[j]]
         ELSE IF order[ROM_BANK_COUNT - 1] # -1
         THEN order
         ELSE [j \in Slots |-> IF j = 0 THEN bank ELSE order[j - 1]]

(***************************************************************************)
(* nsf_load_rom_bank.  io is what the file does during the call: "ok",     *)
(* "seek" (fseek fails) or "read" (fread delivers nothing without EOF).    *)
(* The result is the memory image, the return code and whether the bzero   *)
(* of the slot touched memory outside the ROM buffer.                      *)
(***************************************************************************)
IoOutcomes == {"ok", "seek", "read"}

\* The hit test with the slot index compared in place of the slot's bank ID.
FindLoadedBank_SlotIndex(m, bank) ==
    IF bank \in Slots /\ m.rom_bank_loaded[bank] # 0 THEN bank ELSE -1

\* First slot marked loaded that holds the bank, or -1.
FindLoadedBank(m, bank) ==
    IF \E i \in Slots : m.rom_bank_loaded[i] # 0 /\ m.rom_bank_id[i] = bank
    THEN CHOOSE i \in Slots :
            /\ m.rom_bank_loaded[i] # 0 /\ m.rom_bank_id[i] = bank
            /\ \A j \in 0..(i - 1) :
                  ~(m.rom_bank_loaded[j] # 0 /\ m.rom_bank_id[j] = bank)
    ELSE -1

\* First slot not marked loaded, or -1.
FindEmptySlot(m) ==
    IF \E i \in Slots : m.rom_bank_loaded[i] = 0
    THEN CHOOSE i \in Slots :
            /\ m.rom_bank_loaded[i] = 0
            /\ \A j \in 0..(i - 1) : m.rom_bank_loaded[j] # 0
    ELSE -1

\* First slot whose bank ID is the given one (the loaded flag is not looked at), or -1.
FindSlotOfBank(m, bank) ==
    IF \E i \in Slots : m.rom_bank_id[i] = bank
    THEN CHOOSE i \in Slots :
            /\ m.rom_bank_id[i] = bank
            /\ \A j \in 0..(i - 1) : m.rom_bank_id[j] # bank
    ELSE -1

\* The loop that drops the reference of a ROM block to the evicted slot: the
\* first mapped block whose recorded bank ID equals bank_index is cleared.
ClearBlockReference(m, bank_index) ==
    IF \E i \in Blocks : m.rom_block[i] # NULL /\ m.rom_block_bank_id[i] = bank_index
    THEN LET i == CHOOSE k \in Blocks :
                     /\ m.rom_block[k] # NULL /\ m.rom_block_bank_id[k] = bank_index
                     /\ \A j \in 0..(k - 1) :
                           ~(m.rom_block[j] # NULL /\ m.rom_block_bank_id[j] = bank_index)
         IN [m EXCEPT !.rom_block[i] = NULL, !.rom_block_bank_id[i] = 0]
    ELSE m

\* The eviction branch taking the bank at the head of the use order.
EvictOldest_Head(m) ==
    LET oldest_bank == m.rom_bank_use_order[0]
        bank_index == FindSlotOfBank(m, oldest_bank)
    IN IF oldest_bank = -1 \/ bank_index = -1
       THEN [ok |-> FALSE, m |-> m, bank_index |-> -1]
       ELSE [ok |-> TRUE,
             m |-> ClearBlockReference(
                       [m EXCEPT !.rom_bank_use_order[ROM_BANK_COUNT - 1] = -1,
                                 !.rom_bank_loaded[bank_index] = 0,
                                 !.rom_bank_id[bank_index] = 0],
                       bank_index),
             bank_index |-> bank_index]

\* The eviction branch (no empty slot): [ok, m, bank_index].
EvictOldest(m) ==
    LET oldest_bank == m.rom_bank_use_order[ROM_BANK_COUNT - 1]
        bank_index == FindSlotOfBank(m, oldest_bank)
    IN IF oldest_bank = -1 \/ bank_index = -1
       THEN [ok |-> FALSE, m |-> m, bank_index |-> -1]
       ELSE [ok |-> TRUE,
             m |-> ClearBlockReference(
                       [m EXCEPT !.rom_bank_use_order[ROM_BANK_COUNT - 1] = -1,
                                 !.rom_bank_loaded[bank_index] = 0,
                                 !.rom_bank_id[bank_index] = 0],
                       bank_index),
             bank_index |-> bank_index]

\* The file position of a bank with the padding of the first bank left out.
BankFilePos_IgnorePadding(padding, bank) ==
    IF bank = 0 THEN 128 ELSE 128 + (4096 * bank)

\* Where the bytes of a bank are in the file and where they go in the slot.
BankFilePos(padding, bank) ==
    IF bank = 0 THEN 128 ELSE 128 + (4096 - padding) + (4096 * (bank - 1))

BankReadCount(padding, bank) == IF bank = 0 THEN 4096 - padding ELSE 4096

BankSlotOffset(padding, bank) == IF bank = 0 THEN padding ELSE 0

\* Zero the slot, read the bank into it and commit it to the target block.
FillSlot(m, hdr, f, target_block, bank, bank_index, io) ==
    LET padding == hdr.load_address % 4096
        cleared == [m EXCEPT !.rom_data[bank_index] = ZeroSlot,
                             !.rom_bank_loaded[bank_index] = 0]
        fault == bank_index >= RomSlots(m.rom)
        pos == BankFilePos(padding, bank)
        n == fread(f, pos, BankReadCount(padding, bank))
    IN IF io # "ok"
       THEN [m |-> cleared, ret |-> ESP_FAIL, fault |-> fault, loaded |-> FALSE]
       ELSE [m |-> [cleared EXCEPT
                       !.rom_data[bank_index] =
                           [dst |-> BankSlotOffset(padding, bank), off |-> pos, n |-> n],
                       !.rom_bank_loaded[bank_index] = 1,
                       !.rom_bank_id[bank_index] = bank,
                       !.rom_block[target_block] = bank_index,
                       !.rom_block_bank_id[target_block] = bank,
                       !.rom_bank_use_order = mark_rom_bank_used(@, bank)],
             ret |-> ESP_OK, fault |-> fault, loaded |-> TRUE]

nsf_load_rom_bank(m, hdr, f, reg, bank, io) ==
    IF reg < BANK_REG_FIRST \/ reg > BANK_REG_LAST
    THEN [m |-> m, ret |-> ESP_ERR_INVALID_ARG, fault |-> FALSE, loaded |-> FALSE]
    ELSE LET target_block == reg - BANK_REG_FIRST
             hit == FindLoadedBank(m, bank)
             empty == FindEmptySlot(m)
         IN IF hit # -1
            THEN [m |-> [m EXCEPT !.rom_block[target_block] = hit,
                                  !.rom_block_bank_id[target_block] = bank,
                                  !.rom_bank_use_order = mark_rom_bank_used(@, bank)],
                  ret |-> ESP_OK, fault |-> FALSE, loaded |-> FALSE]
            ELSE IF empty # -1
            THEN FillSlot(m, hdr, f, target_block, bank, empty, io)
            ELSE LET ev == EvictOldest(m) IN
                 IF ~ev.ok
                 THEN [m |-> m, ret |-> ESP_FAIL, fault |-> FALSE, loaded |-> FALSE]
                 ELSE FillSlot(ev.m, hdr, f, target_block, bank, ev.bank_index, io)

(***************************************************************************)
(* nsf_playback_init's helpers.                                            *)
(***************************************************************************)
nsf_init_nes_memory(m) == [ZeroMemory EXCEPT !.apu_regs[16407] = 64]

\* The bootstrap with its loop closed on the JSR init.
nsf_init_nes_prg_JmpInit(m, hdr, song, pal_ntsc) ==
    [m EXCEPT
       !.prg = [k \in 0..16 |->
                  CASE k = 0 -> 169                            \* LDA #song
                    [] k = 1 -> song
                    [] k = 2 -> 162                            \* LDX #pal_ntsc
                    [] k = 3 -> pal_ntsc
                    [] k = 4 -> 32                             \* JSR init
                    [] k = 5 -> hdr.init_address % 256
                    [] k = 6 -> hdr.init_address \div 256
                    [] k = 7 -> 32                             \* JSR play
                    [] k = 8 -> hdr.play_address % 256
                    [] k = 9 -> hdr.play_address \div 256
                    [] k = 10 -> 76                            \* JMP $1004
                    [] k = 11 -> 4
                    [] k = 12 -> 16
                    [] OTHER -> 234],                          \* NOP
       !.int_vecs[2] = 0,
       !.int_vecs[3] = 16]

\* The bootstrap at $1000 and the reset vector.
nsf_init_nes_prg(m, hdr, song, pal_ntsc) ==
    [m EXCEPT
       !.prg = [k \in 0..16 |->
                  CASE k = 0 -> 169                            \* LDA #song
                    [] k = 1 -> song
                    [] k = 2 -> 162                            \* LDX #pal_ntsc
                    [] k = 3 -> pal_ntsc
                    [] k = 4 -> 32                             \* JSR init
                    [] k = 5 -> hdr.init_address % 256
                    [] k = 6 -> hdr.init_address \div 256
                    [] k = 7 -> 32                             \* JSR play
                    [] k = 8 -> hdr.play_address % 256
                    [] k = 9 -> hdr.play_address \div 256
                    [] k = 10 -> 76                            \* JMP $1007
                    [] k = 11 -> 7
                    [] k = 12 -> 16
                    [] OTHER -> 234],                          \* NOP
       !.int_vecs[2] = 0,
       !.int_vecs[3] = 16]

\* The contiguous loader reading the body to the start of the buffer.
nsf_init_load_nes_rom_NoOffset(m, hdr, f, io) ==
    IF hdr.load_address < 32768 \/ io = "seek"
    THEN [m |-> m, ret |-> ESP_FAIL]
    ELSE LET offset == 0
             max_len == 65535 - hdr.load_address
             n == IF io = "read" THEN 0 ELSE fread(f, 128, max_len)
             fresh == [m EXCEPT !.rom = "flat",
                                !.rom_data = [s \in Slots |-> ZeroSlot],
                                !.rom_block = [i \in Blocks |-> NULL]]
         IN IF n = 0
            THEN [m |-> fresh, ret |-> ESP_FAIL]
            ELSE [m |-> [fresh EXCEPT
                           !.rom_data = [s \in Slots |->
                               IF s < 8
                               THEN [dst |-> offset - (s * 4096), off |-> 128, n |-> n]
                               ELSE ZeroSlot],
                           !.rom_block = [i \in Blocks |-> i]],
                  ret |-> ESP_OK]

\* The contiguous loader: one 32 KiB buffer for $8000-$FFFF.
nsf_init_load_nes_rom(m, hdr, f, io) ==
    IF hdr.load_address < 32768 \/ io = "seek"
    THEN [m |-> m, ret |-> ESP_FAIL]
    ELSE LET offset == hdr.load_address - 32768
             max_len == 65535 - hdr.load_address
             n == IF io = "read" THEN 0 ELSE fread(f, 128, max_len)
             fresh == [m EXCEPT !.rom = "flat",
                                !.rom_data = [s \in Slots |-> ZeroSlot],
                                !.rom_block = [i \in Blocks |-> NULL]]
         IN IF n = 0
            THEN [m |-> fresh, ret |-> ESP_FAIL]
            ELSE [m |-> [fresh EXCEPT
                           !.rom_data = [s \in Slots |->
                               IF s < 8
                               THEN [dst |-> offset - (s * 4096), off |-> 128, n |-> n]
                               ELSE ZeroSlot],
                           !.rom_block = [i \in Blocks |-> i]],
                  ret |-> ESP_OK]

\* The loop over the header's eight initial banks, from block i on; the file
\* fails as plan.kind during the load of block plan.at (8: it never fails).
RECURSIVE LoadInitialBanks(_, _, _, _, _)
LoadInitialBanks(m, hdr, f, i, plan) ==
    IF i >= 8
    THEN [m |-> m, ret |-> ESP_OK]
    ELSE LET r == nsf_load_rom_bank(m, hdr, f, BANK_REG_FIRST + i,
                                    hdr.bankswitch_init[i],
                                    IF plan.at = i THEN plan.kind ELSE "ok")
         IN IF r.ret # ESP_OK
            THEN [m |-> r.m, ret |-> r.ret]
            ELSE LoadInitialBanks(r.m, hdr, f, i + 1, plan)

\* The bankswitched loader: ten empty 4 KiB slots, then the initial banks.
nsf_init_load_nes_rom_banks(m, hdr, f, plan) ==
    LoadInitialBanks(
        [m EXCEPT !.rom = "banks",
                  !.rom_data = [s \in Slots |-> ZeroSlot],
                  !.rom_bank_id = [s \in Slots |-> 0],
                  !.rom_bank_loaded = [s \in Slots |-> 0],
                  !.rom_bank_use_order = [s \in Slots |-> -1],
                  !.rom_block = [i \in Blocks |-> NULL],
                  !.rom_block_bank_id = [i \in Blocks |-> 0]],
        hdr, f, 0, plan)

(***************************************************************************)
(* The bus.                                                                *)
(***************************************************************************)
IsRam(address) == address <= 2047
IsPrg(address) == address >= 4096 /\ address <= 4223
\* The APU and I/O page taken up to $401F.
IsApu_Wide(address) == address >= 16384 /\ address <= 16415

IsApu(address) == address >= 16384 /\ address <= 16407
IsBankReg(address) == address >= BANK_REG_FIRST /\ address <= BANK_REG_LAST
IsRom(address) == address >= 32768 /\ address < 65530
IsVec(address) == address >= 65530

\* (address & 0x7000) >> 12
BlockIndex(address) == (address \div 4096) % 8

\* read6502 with an instance registered: [value, m].
BusRead(m, f, address) ==
    CASE IsRam(address) -> [value |-> m.ram[address], m |-> m]
      [] IsPrg(address) ->
            [value |-> IF address - 4096 <= 16 THEN m.prg[address - 4096] ELSE 0,
             m |-> m]
      [] IsApu(address) -> [value |-> m.apu_regs[address], m |-> m]
      [] IsBankReg(address) ->
            [value |-> m.bank_regs[address - BANK_REG_FIRST], m |-> m]
      [] IsRom(address) ->
            LET block_index == BlockIndex(address) IN
            IF m.rom_block[block_index] = NULL
            THEN [value |-> 0, m |-> m]
            ELSE [value |-> SlotByte(f, m.rom_data[m.rom_block[block_index]],
                                     address % 4096),
                  m |-> [m EXCEPT !.rom_bank_use_order =
                            mark_rom_bank_used(@, m.rom_block_bank_id[block_index])]]
      [] IsVec(address) -> [value |-> m.int_vecs[address - 65530], m |-> m]
      [] OTHER -> [value |-> 0, m |-> m]

\* The store reloads the bank whatever the register holds.
BankRegChanged_Always(m, address, value) == TRUE

\* The test of write6502 that decides whether a store to a bank register
\* calls nsf_load_rom_bank.
BankRegChanged(m, address, value) == m.bank_regs[address - BANK_REG_FIRST] # value

\* Every store to $4000-$4017 is handed to the APU callback.
ApuWriteReported_All(address) == TRUE

\* The test of write6502 that keeps stores to $4016 from the APU callback.
ApuWriteReported(address) == address # 16406

\* write6502 with an instance registered:
\* [m, cb (the APU callbacks made), loads, load_ret, fault].
BusWrite(m, hdr, f, cb, address, value, io) ==
    CASE IsRam(address) ->
            [m |-> [m EXCEPT !.ram[address] = value], cb |-> <<>>, loads |-> 0,
             load_ret |-> ESP_OK, fault |-> FALSE]
      [] IsApu(address) ->
            [m |-> [m EXCEPT !.apu_regs[address] = value],
             cb |-> IF ApuWriteReported(address) /\ cb # 0
                    THEN <<<<address, value>>>> ELSE <<>>,
             loads |-> 0, load_ret |-> ESP_OK, fault |-> FALSE]
      [] IsBankReg(address) ->
            IF BankRegChanged(m, address, value)
            THEN LET r == nsf_load_rom_bank(
                              [m EXCEPT !.bank_regs[address - BANK_REG_FIRST] = value],
                              hdr, f, address, value, io)
                 IN [m |-> r.m, cb |-> <<>>, loads |-> 1, load_ret |-> r.ret,
                     fault |-> r.fault]
            ELSE [m |-> m, cb |-> <<>>, loads |-> 0, load_ret |-> ESP_OK,
                  fault |-> FALSE]
      [] OTHER ->
            [m |-> m, cb |-> <<>>, loads |-> 0, load_ret |-> ESP_OK, fault |-> FALSE]

(***************************************************************************)
(* The CPU core (fake6502), as far as the bootstrap at $1000 needs it: the *)
(* registers pc, sp, a, x and the instructions LDA #, LDX #, JSR, RTS, JMP *)
(* and NOP.  Every fetch is a read6502 and every push a write6502.  A run  *)
(* is [c, m, trace, hung]: the registers, the memory image, the addresses  *)
(* of the instructions executed and whether the run never came back.       *)
(***************************************************************************)
MaxSteps == 12

STACK_TOP == 253          \* sp after reset6502 ($FD)

ResetCpu == [pc |-> 0, sp |-> 0, a |-> 0, x |-> 0]

\* read6502 of the addresses in turn: [values, m].
RECURSIVE BusReads(_, _, _)
PrependValue(value, rest) == [rest EXCEPT !.values = <<value>> \o @]

ReadOn(r, f, addrs) == PrependValue(r.value, BusReads(r.m, f, addrs))

BusReads(m, f, addrs) ==
    IF addrs = <<>>
    THEN [values |-> <<>>, m |-> m]
    ELSE ReadOn(BusRead(m, f, Head(addrs)), f, Tail(addrs))

\* write6502 of the <<address, value>> pairs in turn: the memory image.
RECURSIVE BusWrites(_, _, _, _, _)
BusWrites(m, hdr, f, cb, stores) ==
    IF stores = <<>>
    THEN m
    ELSE BusWrites(BusWrite(m, hdr, f, cb, Head(stores)[1], Head(stores)[2], "ok").m,
                   hdr, f, cb, Tail(stores))

\* The registers after reset6502, v being what the reads of $FFFC and $FFFD gave.
AtResetVector(v) ==
    [c |-> [pc |-> v.values[1] + 256 * v.values[2], sp |-> STACK_TOP,
            a |-> 0, x |-> 0],
     m |-> v.m, trace |-> <<>>, hung |-> FALSE]

reset6502(m, f) == AtResetVector(BusReads(m, f, <<65532, 65533>>))

\* The bus reads an instruction makes after the fetch of its opcode.
OperandAddrs(opcode, c) ==
    CASE opcode \in {169, 162} -> <<(c.pc + 1) % 65536>>
      [] opcode \in {32, 76} -> <<(c.pc + 1) % 65536, (c.pc + 2) % 65536>>
      [] opcode = 96 -> <<256 + ((c.sp + 1) % 256), 256 + ((c.sp + 2) % 256)>>
      [] OTHER -> <<>>

\* The bus writes it makes: JSR pushes the address of its last byte.
StackPushes(opcode, c) ==
    IF opcode = 32
    THEN <<<<256 + c.sp, ((c.pc + 2) % 65536) \div 256>>,
           <<256 + ((c.sp + 255) % 256), ((c.pc + 2) % 65536) % 256>>>>
    ELSE <<>>

\* The instruction retires: v are the bytes its operand reads returned and m
\* is the memory image after its bus traffic.
Retire(r, opcode, v, m) ==
    CASE opcode = 169 ->                                        \* LDA #imm
           [r EXCEPT !.c.pc = (@ + 2) % 65536, !.c.a = v[1],
                     !.m = m, !.trace = Append(@, r.c.pc)]
      [] opcode = 162 ->                                        \* LDX #imm
           [r EXCEPT !.c.pc = (@ + 2) % 65536, !.c.x = v[1],
                     !.m = m, !.trace = Append(@, r.c.pc)]
      [] opcode = 32 ->                                         \* JSR abs
           [r EXCEPT !.c.pc = v[1] + 256 * v[2], !.c.sp = (@ + 254) % 256,
                     !.m = m, !.trace = Append(@, r.c.pc)]
      [] opcode = 96 ->                                         \* RTS
           [r EXCEPT !.c.pc = (v[1] + 256 * v[2] + 1) % 65536, !.c.sp = (@ + 2) % 256,
                     !.m = m, !.trace = Append(@, r.c.pc)]
      [] opcode = 76 ->                                         \* JMP abs
           [r EXCEPT !.c.pc = v[1] + 256 * v[2],
                     !.m = m, !.trace = Append(@, r.c.pc)]
      [] opcode = 234 ->                                        \* NOP
           [r EXCEPT !.c.pc = (@ + 1) % 65536,
                     !.m = m, !.trace = Append(@, r.c.pc)]
      [] OTHER -> [r EXCEPT !.hung = TRUE, !.m = m, !.trace = Append(@, r.c.pc)]

\* The operand reads are done: the pushes follow.
Execute(r, hdr, f, cb, opcode, operand) ==
    Retire(r, opcode, operand.values,
           BusWrites(operand.m, hdr, f, cb, StackPushes(opcode, r.c)))

\* The opcode is fetched: the operand reads follow.
Decode(r, hdr, f, cb, fetch) ==
    Execute(r, hdr, f, cb, fetch.values[1],
            BusReads(fetch.m, f, OperandAddrs(fetch.values[1], r.c)))

step6502(r, hdr, f, cb) == Decode(r, hdr, f, cb, BusReads(r.m, f, <<r.c.pc>>))

\* One more turn of the stepping loop unless t is at $1007 or stuck.
RECURSIVE StepUntilSync(_, _, _, _, _)
LoopTest(t, hdr, f, cb, fuel) ==
    IF t.hung \/ t.c.pc = SYNC_PC THEN t ELSE StepUntilSync(t, hdr, f, cb, fuel)

\* do { step6502(); } while (get6502_pc() != 0x1007), at most fuel times.
StepUntilSync(r, hdr, f, cb, fuel) ==
    IF fuel = 0
    THEN [r EXCEPT !.hung = TRUE]
    ELSE LoopTest(step6502(r, hdr, f, cb), hdr, f, cb, fuel - 1)

\* The files whose INIT and PLAY routines the model of the core executes; the
\* routines of the others are not decoded: they are taken to return, and
\* their bus traffic is that of Read6502 and Write6502.
TuneDecoded(f) == f = "rts"

\* The stepping loop of nsf_playback_init and nsf_playback_frame, from the
\* registers and the memory image of r.
CpuRunToSync(r, hdr, f, cb) ==
    IF TuneDecoded(f)
    THEN StepUntilSync(r, hdr, f, cb, MaxSteps)
    ELSE [r EXCEPT !.c.pc = SYNC_PC]

VARIABLES
    active_nsf_file,   \* 0 (NULL) or the id of the registered instance
    live,              \* ids of the instances allocated and not freed
    file,              \* the file the registered instance reads
    header,            \* its parsed header
    apu_write_cb,      \* its APU callback (0 = none)
    nes_memory,        \* its memory image
    pc,                \* the CPU core's program counter
    cpu,               \* its other registers [sp, a, x]
    init_ok,           \* the last nsf_playback_init on the instance returned ESP_OK
    aborted,           \* the process has been terminated (assert, bad access)
    heap_overrun,      \* bytes outside the ROM buffer have been written
    last_op            \* the call just made and what it did

vars == <<active_nsf_file, live, file, header, apu_write_cb, nes_memory,
          pc, cpu, init_ok, aborted, heap_overrun, last_op>>

NoOp ==
    [op |-> "none", addr |-> 0, val |-> 0, ret |-> 0, old |-> 0, loads |-> 0,
     load_ret |-> 0, cb |-> <<>>, stepped |-> FALSE, rep |-> FALSE,
     prev_loads |-> 0, prev_old |-> 0, was_ok |-> FALSE, fname |-> "",
     after_free |-> FALSE, trace |-> <<>>]

\* The record of a call of the kind op.
Op(op) == [NoOp EXCEPT !.op = op]

Init ==
    /\ active_nsf_file = 0
    /\ live = {}
    /\ file = "missing"
    /\ header = ZeroHeader
    /\ apu_write_cb = 0
    /\ nes_memory = ZeroMemory
    /\ pc = 0
    /\ cpu = [sp |-> 0, a |-> 0, x |-> 0]
    /\ init_ok = FALSE
    /\ aborted = FALSE
    /\ heap_overrun = FALSE
    /\ last_op = NoOp

(***************************************************************************)
(* The public API.  The caller holds the handle of the registered instance *)
(* and passes it to nsf_playback_init, nsf_playback_frame and nsf_free.    *)
(***************************************************************************)
\* nsf_open without its test.
OpenRefused_Never(active) == FALSE

\* The test at the top of nsf_open.
OpenRefused(active) == active # 0

\* nsf_open(&nsf, f).  A failed open hands the unregistered instance to
\* nsf_free, whose assert(active_nsf_file == nsf) then ends the process when
\* assertions are compiled in; without them the instance is released.
NsfOpen(f) ==
    /\ ~aborted
    /\ InstanceIds \ live # {}
    /\ IF OpenRefused(active_nsf_file)
       THEN /\ last_op' = [Op("open") EXCEPT !.ret = ESP_ERR_INVALID_STATE, !.fname = f]
            /\ UNCHANGED <<active_nsf_file, live, file, header, apu_write_cb,
                           nes_memory, pc, cpu, init_ok, aborted, heap_overrun>>
       ELSE LET id == CHOOSE i \in InstanceIds \ live :
                           \A j \in InstanceIds \ live : i <= j
                h == nsf_read_header_impl(f)
                ret == IF ~FileExists(f) THEN ESP_FAIL ELSE h.ret
            IN /\ last_op' = [Op("open") EXCEPT !.ret = ret, !.fname = f,
                                              !.after_free = (last_op.op = "free")]
               /\ UNCHANGED <<pc, cpu, heap_overrun>>
               /\ IF ret >= 0
                  THEN /\ active_nsf_file' = id
                       /\ live' = live \cup {id}
                       /\ file' = f
                       /\ header' = h.header
                       /\ apu_write_cb' = 0
                       /\ nes_memory' = ZeroMemory
                       /\ init_ok' = FALSE
                       /\ UNCHANGED aborted
                  ELSE /\ \E asserts \in BOOLEAN : aborted' = asserts
                       /\ UNCHANGED <<active_nsf_file, live, file, header, apu_write_cb,
                                      nes_memory, init_ok>>

\* nsf_free(nsf) of the registered instance.
NsfFree ==
    /\ ~aborted
    /\ active_nsf_file # 0
    /\ live' = live \ {active_nsf_file}
    /\ active_nsf_file' = 0
    /\ file' = "missing"
    /\ header' = ZeroHeader
    /\ apu_write_cb' = 0
    /\ nes_memory' = ZeroMemory
    /\ init_ok' = FALSE
    /\ last_op' = Op("free")
    /\ UNCHANGED <<pc, cpu, aborted, heap_overrun>>

\* The registers of the core as a run starts from them.
Registers == [pc |-> pc, sp |-> cpu.sp, a |-> cpu.a, x |-> cpu.x]

\* The stepping loop of the call op has ended as run: the core keeps its
\* registers, the instance the memory image; a loop that never ends is the
\* end of the process.
CpuRan(op, run) ==
    /\ nes_memory' = run.m
    /\ pc' = run.c.pc
    /\ cpu' = [sp |-> run.c.sp, a |-> run.c.a, x |-> run.c.x]
    /\ aborted' = run.hung
    /\ last_op' = [Op(op) EXCEPT !.ret = ESP_OK, !.old = pc, !.stepped = TRUE,
                                !.was_ok = (op = "frame" /\ init_ok),
                                !.trace = run.trace]

\* nsf_playback_init(nsf, song, cb); plan is what the file does meanwhile.
NsfPlaybackInit(song, cb, plan) ==
    /\ ~aborted
    /\ active_nsf_file # 0
    /\ LET m1 == nsf_init_nes_prg(nsf_init_nes_memory(nes_memory), header, song, 0)
           r == IF nsf_has_bank_switching(header)
                THEN nsf_init_load_nes_rom_banks(m1, header, file, plan)
                ELSE nsf_init_load_nes_rom(m1, header, file,
                                           IF plan.at = 0 THEN plan.kind ELSE "ok")
       IN /\ apu_write_cb' = cb
          /\ init_ok' = (r.ret = ESP_OK)
          /\ IF r.ret # ESP_OK
             THEN /\ nes_memory' = r.m
                  /\ last_op' = [Op("init") EXCEPT !.ret = r.ret, !.old = pc]
                  /\ UNCHANGED <<pc, cpu, aborted>>
             ELSE CpuRan("init",
                         CpuRunToSync(reset6502(r.m, file), header, file, cb))
    /\ UNCHANGED <<active_nsf_file, live, file, header, heap_overrun>>

\* The test at the top of nsf_playback_frame.
FrameRefused(cpu_pc) == cpu_pc # SYNC_PC

\* nsf_playback_frame(nsf).
NsfPlaybackFrame ==
    /\ ~aborted
    /\ active_nsf_file # 0
    /\ IF FrameRefused(pc)
       THEN /\ last_op' = [Op("frame") EXCEPT !.ret = ESP_ERR_INVALID_STATE,
                                       !.old = pc, !.was_ok = init_ok]
            /\ UNCHANGED <<pc, cpu, nes_memory, aborted>>
       ELSE CpuRan("frame",
                   CpuRunToSync([c |-> Registers, m |-> nes_memory,
                                 trace |-> <<>>, hung |-> FALSE],
                                header, file, apu_write_cb))
    /\ UNCHANGED <<active_nsf_file, live, file, header, apu_write_cb,
                   init_ok, heap_overrun>>

\* read6502(address), called by the CPU core.
Read6502(address) ==
    /\ ~aborted
    /\ IF active_nsf_file = 0
       THEN /\ last_op' = [Op("read") EXCEPT !.addr = address]
            /\ UNCHANGED nes_memory
       ELSE LET r == BusRead(nes_memory, file, address) IN
            /\ nes_memory' = r.m
            /\ last_op' = [Op("read") EXCEPT !.addr = address,
                                       !.val = r.value]
    /\ UNCHANGED <<active_nsf_file, live, file, header, apu_write_cb, pc, cpu,
                   init_ok, aborted, heap_overrun>>

\* write6502(address, value), called by the CPU core; io is what the file
\* does if the store loads a bank.  A bzero through the NULL rom pointer ends
\* the process; one past the end of the buffer corrupts the heap, after which
\* the process either goes on or ends.
Write6502(address, value, io) ==
    /\ ~aborted
    /\ IF active_nsf_file = 0
       THEN /\ last_op' = [Op("write") EXCEPT !.addr = address, !.val = value]
            /\ UNCHANGED <<nes_memory, aborted, heap_overrun>>
       ELSE LET r == BusWrite(nes_memory, header, file, apu_write_cb, address, value, io)
                rep == /\ last_op.op = "write" /\ last_op.addr = address
                       /\ last_op.val = value
            IN /\ nes_memory' = r.m
               /\ last_op' = [Op("write") EXCEPT
                                !.addr = address, !.val = value,
                                !.old = IF IsBankReg(address)
                                        THEN nes_memory.bank_regs[address - BANK_REG_FIRST]
                                        ELSE 0,
                                !.loads = r.loads, !.load_ret = r.load_ret,
                                !.cb = r.cb, !.rep = rep,
                                !.prev_loads = IF rep THEN last_op.loads ELSE 0,
                                !.prev_old = IF rep THEN last_op.old ELSE 0]
               /\ heap_overrun' = (heap_overrun \/ (r.fault /\ nes_memory.rom # "null"))
               /\ IF r.fault /\ nes_memory.rom = "null"
                  THEN aborted' = TRUE
                  ELSE IF r.fault
                  THEN \E crash \in BOOLEAN : aborted' = crash
                  ELSE UNCHANGED aborted
    /\ UNCHANGED <<active_nsf_file, live, file, header, apu_write_cb, pc, cpu,
                   init_ok>>

(***************************************************************************)
(* Spec: the whole API over the four files, with a CPU that stores two     *)
(* bank numbers to the last bank register and reads through two windows.   *)
(***************************************************************************)
NoFailure == [at |-> 8, kind |-> "ok"]

InitPlans == {NoFailure, [at |-> 0, kind |-> "seek"]}

ReadAddrs == {32768, 61440}

BankWrites == {<<24568, 9>>, <<24575, 0>>, <<24575, 9>>}

OtherWrites == {<<0, 85>>, <<16406, 1>>}

Next ==
    \/ \E f \in FileNames : NsfOpen(f)
    \/ NsfFree
    \/ \E plan \in InitPlans : NsfPlaybackInit(0, 1, plan)
    \/ NsfPlaybackFrame
    \/ \E a \in ReadAddrs : Read6502(a)
    \/ \E w \in BankWrites, io \in IoOutcomes : Write6502(w[1], w[2], io)
    \/ \E w \in OtherWrites : Write6502(w[1], w[2], "ok")

Spec == Init /\ [][Next]_vars

(***************************************************************************)
(* SpecCache: the bankswitched file, played by a CPU that stores any of    *)
(* five bank numbers to the last bank register and reads through windows   *)
(* 0 and 7, while the file may fail during any bank load.                  *)
(***************************************************************************)
CacheBanks == {9, 10, 11, 12}

CacheIo == {"ok", "read"}

CacheReadAddrs == {32768, 61440}

NextCache ==
    \/ NsfOpen("banked")
    \/ NsfPlaybackInit(0, 1, NoFailure)
    \/ \E a \in CacheReadAddrs : Read6502(a)
    \/ \E b \in CacheBanks, io \in CacheIo : Write6502(BANK_REG_LAST, b, io)

SpecCache == Init /\ [][NextCache]_vars

(***************************************************************************)
(* SpecWalk: the bankswitched file, played by a tune that maps the next    *)
(* bank of its data (FirstWalkBank..MaxBank, cyclically) into the last     *)
(* window on every store and reads through window 0.  The medium has a     *)
(* defect: no byte of the banks in BadBanks can be read.                   *)
(***************************************************************************)
FirstWalkBank == 9
MaxBank == 23

BadBanks == {11}

NextBank(b) == IF b < FirstWalkBank \/ b >= MaxBank THEN FirstWalkBank ELSE b + 1

WalkIo(bank) == IF bank \in BadBanks THEN "read" ELSE "ok"

NextWalk ==
    \/ NsfOpen("banked")
    \/ NsfPlaybackInit(0, 1, NoFailure)
    \/ Read6502(32768)
    \/ \E b \in {NextBank(nes_memory.bank_regs[7])} :
          Write6502(BANK_REG_LAST, b, WalkIo(b))

SpecWalk == Init /\ [][NextWalk]_vars

(***************************************************************************)
(* SpecFlat: the files without bankswitching ("rts", whose routines the    *)
(* core model executes, "padded" and "flat"), with stores to the APU       *)
(* registers, stores to addresses nothing is mapped at and reads of such   *)
(* addresses.                                                              *)
(***************************************************************************)
FlatFiles == {"rts", "padded", "flat"}

Songs == {0, 1}

ApuWrites == {<<16384, 7>>, <<16406, 1>>, <<16407, 255>>}

\* $0800, $1000, $4018, $5FF7, $6000, $8000, $FFFC
IgnoredWrites ==
    {<<2048, 1>>, <<4096, 1>>, <<16408, 1>>, <<24567, 1>>, <<24576, 1>>,
     <<32768, 1>>, <<65532, 1>>}

\* $0800, $3FFF, $5FF7, $6000, $7FFF
UnmappedReads == {2048, 16383, 24567, 24576, 32767}

NextFlat ==
    \/ \E f \in FlatFiles : NsfOpen(f)
    \/ NsfFree
    \/ \E song \in Songs : NsfPlaybackInit(song, 1, NoFailure)
    \/ NsfPlaybackFrame
    \/ \E a \in UnmappedReads \cup {16384, 16406} : Read6502(a)
    \/ \E w \in ApuWrites \cup IgnoredWrites : Write6502(w[1], w[2], "ok")

SpecFlat == Init /\ [][NextFlat]_vars

(***************************************************************************)
(* SpecOverrun: the file without bankswitching, played by a tune that      *)
(* stores the next bank number (1..MaxFlatBank, cyclically) to $5FF8 and   *)
(* reads through windows 0 and 7.                                          *)
(***************************************************************************)
MaxFlatBank == 9

NextFlatBank(b) == IF b >= MaxFlatBank THEN 1 ELSE b + 1

NextOverrun ==
    \/ NsfOpen("flat")
    \/ NsfPlaybackInit(0, 1, NoFailure)
    \/ NsfPlaybackFrame
    \/ \E a \in ReadAddrs : Read6502(a)
    \/ \E b \in {NextFlatBank(nes_memory.bank_regs[0])} :
          Write6502(BANK_REG_FIRST, b, "ok")

SpecOverrun == Init /\ [][NextOverrun]_vars

(***************************************************************************)
(* SpecLru: two bankswitched files, "seq" (load $8000, initial banks 0..7) *)
(* and "highpad" (load $8F00, initial banks 0, 1, 2, 3, 3, 3, 3, 3, body   *)
(* ending inside bank 3), played by a CPU that stores bank numbers to the  *)
(* first three bank registers and reads through windows 0 and 2.           *)
(***************************************************************************)
LruFiles == {"seq", "highpad"}

\* $5FF8 <- 8, $5FF9 <- 9, $5FFA <- 10, $5FFA <- 0
LruWrites == {<<24568, 8>>, <<24569, 9>>, <<24570, 10>>, <<24570, 0>>}

LruReadAddrs == {32768, 40960}

NextLru ==
    \/ \E f \in LruFiles : NsfOpen(f)
    \/ NsfPlaybackInit(0, 1, NoFailure)
    \/ \E a \in LruReadAddrs : Read6502(a)
    \/ \E w \in LruWrites : Write6502(w[1], w[2], "ok")

SpecLru == Init /\ [][NextLru]_vars

(***************************************************************************)
(* What the claims speak about.                                            *)
(***************************************************************************)
\* A bankswitched file is being played: the ten-slot buffer is allocated.
Bankswitched == active_nsf_file # 0 /\ ~aborted /\ nes_memory.rom = "banks"

LoadedSlots(m) == {s \in Slots : m.rom_bank_loaded[s] # 0}

CachedBanks(m) == {m.rom_bank_id[s] : s \in LoadedSlots(m)}

\* The occupied entries of the use order, as a set and as a sequence.
UsedBanks(m) == {m.rom_bank_use_order[k] : k \in Slots} \ {-1}

UseSeq(m) == [k \in 1..ROM_BANK_COUNT |-> m.rom_bank_use_order[k - 1]]

OrderWithout(m, b) == SelectSeq(UseSeq(m), LAMBDA x : x # b /\ x # -1)

(***************************************************************************)
(* Window consistency, eviction and the use order.                         *)
(***************************************************************************)
\* C1 (P3): while a bankswitched file is played, every ROM window whose
\* pointer is not NULL points to a slot that is marked loaded and whose bank
\* ID is the bank ID recorded for the window.
C1_WindowConsistency ==
    Bankswitched =>
        \A i \in Blocks :
            nes_memory.rom_block[i] # NULL =>
                /\ nes_memory.rom_bank_loaded[nes_memory.rom_block[i]] # 0
                /\ nes_memory.rom_bank_id[nes_memory.rom_block[i]] =
                       nes_memory.rom_block_bank_id[i]

\* The step is a store to a bank register that calls nsf_load_rom_bank for a
\* bank that is not cached while every slot is occupied.
EvictingLoadStep ==
    /\ Bankswitched
    /\ last_op'.op = "write" /\ last_op'.loads = 1
    /\ LoadedSlots(nes_memory) = Slots
    /\ last_op'.val \notin CachedBanks(nes_memory)

\* C2 (P4): a load of a bank that is not cached, made while all ten slots are
\* occupied, removes from the cache exactly the bank at the tail of the use
\* order as it was before the call.
C2_EvictionOrder ==
    [][EvictingLoadStep =>
          CachedBanks(nes_memory) \ CachedBanks(nes_memory') =
              {nes_memory.rom_bank_use_order[ROM_BANK_COUNT - 1]}]_vars

\* C3 (P1): no bank ID is held by more than one loaded slot.
C3_CacheUniqueness ==
    \A s, t \in LoadedSlots(nes_memory) :
        nes_memory.rom_bank_id[s] = nes_memory.rom_bank_id[t] => s = t

\* Banks were loaded by the initial loads, by hits, by misses into a free
\* slot and by two evicting misses (banks 1 and 2 are gone, 11 and 12 are in).
C3_Witness ==
    /\ Bankswitched
    /\ LoadedSlots(nes_memory) = Slots
    /\ {11, 12} \subseteq CachedBanks(nes_memory)
    /\ CachedBanks(nes_memory) \cap {1, 2} = {}
    /\ last_op.op = "write" /\ last_op.loads = 1 /\ last_op.load_ret = ESP_OK

\* C4 (P2): while a bankswitched file is played, the use order is a prefix of
\* bank IDs followed only by -1, its banks are those of the loaded slots, and
\* its occupied length is the number of loaded slots.
C4_LruContiguity ==
    Bankswitched =>
        /\ \A k \in 1..(ROM_BANK_COUNT - 1) :
              nes_memory.rom_bank_use_order[k] # -1 =>
                  nes_memory.rom_bank_use_order[k - 1] # -1
        /\ UsedBanks(nes_memory) = CachedBanks(nes_memory)
        /\ Cardinality({k \in Slots : nes_memory.rom_bank_use_order[k] # -1}) =
               Cardinality(LoadedSlots(nes_memory))

\* The step is a read6502 of $8000-$FFF9 through a window that is mapped.
MappedReadStep ==
    /\ active_nsf_file # 0
    /\ last_op'.op = "read" /\ IsRom(last_op'.addr)
    /\ nes_memory.rom_block[BlockIndex(last_op'.addr)] # NULL

\* C5: a read through a mapped ROM window leaves the bank recorded for the
\* window at the head of the use order and keeps the order of the others.
C5_ReadTouchesMru ==
    [][MappedReadStep =>
          LET bank == nes_memory.rom_block_bank_id[BlockIndex(last_op'.addr)] IN
          /\ nes_memory'.rom_bank_use_order[0] = bank
          /\ OrderWithout(nes_memory', bank) = OrderWithout(nes_memory, bank)]_vars

(***************************************************************************)
(* Bank registers.                                                         *)
(***************************************************************************)
\* The call just made is the second of two consecutive stores of the same
\* value to the same bank register of the registered instance.
RepeatedBankWrite ==
    /\ active_nsf_file # 0
    /\ last_op.op = "write" /\ IsBankReg(last_op.addr) /\ last_op.rep

\* C6 (P8) as stated: two consecutive stores of v to $5FF8+i call
\* nsf_load_rom_bank exactly once, whatever the bank register held before
\* (here: during playback, after a successful nsf_playback_init).
C6_ExactlyOneLoad ==
    (RepeatedBankWrite /\ init_ok) => last_op.prev_loads + last_op.loads = 1

\* C6 as amended: of two consecutive stores of v to $5FF8+i the second calls
\* nsf_load_rom_bank never, and the first calls it once exactly when the bank
\* register held a value other than v before it.
C6_AtMostOneLoad ==
    RepeatedBankWrite =>
        /\ last_op.loads = 0
        /\ last_op.prev_loads = (IF last_op.prev_old # last_op.val THEN 1 ELSE 0)

\* A value was stored twice to a bank register that held another one.
C6_Witness ==
    /\ RepeatedBankWrite /\ ~aborted
    /\ last_op.prev_loads = 1 /\ last_op.loads = 0
    /\ last_op.prev_old # last_op.val

\* C7: a store to $5FF8+i whose bank load fails leaves window i unmapped.
C7_FailedLoadUnmapsWindow ==
    ( /\ active_nsf_file # 0 /\ ~aborted
      /\ last_op.op = "write" /\ last_op.loads = 1 /\ last_op.load_ret # ESP_OK )
    => nes_memory.rom_block[last_op.addr - BANK_REG_FIRST] = NULL

(***************************************************************************)
(* Files without bankswitching.                                            *)
(***************************************************************************)
\* The image nsf_playback_init builds for the registered file when every
\* file access succeeds.
LoadedImage ==
    nsf_init_load_nes_rom(
        nsf_init_nes_prg(nsf_init_nes_memory(nes_memory), header, 0, 0),
        header, file, "ok").m

\* C8: after nsf_playback_init of a file without bankswitching and any bus
\* traffic, window i still points at offset i * 4096 of the 32 KiB buffer,
\* the buffer holds what was loaded, and the bank cache is as it was.
C8_FlatMappingKept ==
    ( /\ active_nsf_file # 0 /\ ~aborted
      /\ ~nsf_has_bank_switching(header) /\ init_ok )
    => /\ nes_memory.rom_block = [i \in Blocks |-> i]
       /\ nes_memory.rom_data = LoadedImage.rom_data
       /\ nes_memory.rom_bank_id = LoadedImage.rom_bank_id
       /\ nes_memory.rom_bank_loaded = LoadedImage.rom_bank_loaded
       /\ nes_memory.rom_bank_use_order = LoadedImage.rom_bank_use_order

(***************************************************************************)
(* The API's state guards.                                                 *)
(***************************************************************************)
ValidFile(f) == FileExists(f) /\ nsf_read_header_impl(f).ret = ESP_OK

\* C9: at most one instance is allocated, and it is the registered one; an
\* nsf_open made while an instance is registered returns
\* ESP_ERR_INVALID_STATE and changes nothing of it; an nsf_open of a valid
\* file made right after nsf_free registers a new instance and returns ESP_OK.
C9_SingleActiveInstance ==
    /\ [](/\ Cardinality(live) <= 1
          /\ active_nsf_file # 0 => live = {active_nsf_file}
          /\ active_nsf_file = 0 => live = {})
    /\ [][(last_op'.op = "open" /\ active_nsf_file # 0) =>
             /\ last_op'.ret = ESP_ERR_INVALID_STATE
             /\ UNCHANGED <<active_nsf_file, live, file, header, nes_memory>>]_vars
    /\ [][(last_op.op = "free" /\ last_op'.op = "open" /\ ValidFile(last_op'.fname)) =>
             /\ last_op'.ret = ESP_OK
             /\ active_nsf_file' # 0
             /\ file' = last_op'.fname]_vars

\* An instance was freed and the nsf_open that followed succeeded.
C9_Witness ==
    /\ last_op.op = "open" /\ last_op.after_free /\ last_op.ret = ESP_OK
    /\ active_nsf_file # 0 /\ live = {active_nsf_file}

\* C10: nsf_playback_frame returns ESP_ERR_INVALID_STATE without stepping the
\* CPU unless the last nsf_playback_init of the instance succeeded and the
\* CPU is at $1007.
C10_FrameGuard ==
    (last_op.op = "frame" /\ ~(last_op.was_ok /\ last_op.old = SYNC_PC))
    => (last_op.ret = ESP_ERR_INVALID_STATE /\ ~last_op.stepped)

(***************************************************************************)
(* The bootstrap and the bus.                                              *)
(***************************************************************************)
\* C11: for a file whose INIT and PLAY are a single RTS, a successful
\* nsf_playback_init returns with pc = $1007 after the core executed LDA
\* #song, LDX #pal_ntsc, JSR init and INIT's RTS and nothing else (one INIT
\* call, no PLAY call); every nsf_playback_frame after it returns with
\* pc = $1007 after JSR play, PLAY's RTS and JMP $1007 and nothing else.
C11_FrameAlignment ==
    (active_nsf_file # 0 /\ TuneDecoded(file)) =>
        /\ (last_op.op = "init" /\ last_op.ret = ESP_OK) =>
              /\ ~aborted /\ pc = SYNC_PC /\ cpu.sp = STACK_TOP
              /\ cpu.a = nes_memory.prg[1] /\ cpu.x = nes_memory.prg[3]
              /\ last_op.trace = <<4096, 4098, 4100, header.init_address>>
        /\ (last_op.op = "frame" /\ last_op.was_ok) =>
              /\ ~aborted /\ pc = SYNC_PC /\ cpu.sp = STACK_TOP
              /\ last_op.ret = ESP_OK
              /\ last_op.trace = <<4103, header.play_address, 4106>>

\* A frame of the file "rts" was played after its second song was set up.
C11_Witness ==
    /\ active_nsf_file # 0 /\ file = "rts" /\ ~aborted
    /\ last_op.op = "frame" /\ last_op.was_ok /\ last_op.stepped
    /\ cpu.a = 1 /\ Len(last_op.trace) = 3

\* C12 (P7): a store to $4016 makes no APU callback; a store to another
\* address of $4000-$4017 makes exactly one, with that address and the value
\* stored, when a callback is registered; either way a read6502 of the
\* address then returns the value stored.
C12_ApuWriteMasking ==
    (active_nsf_file # 0 /\ last_op.op = "write"
       /\ last_op.addr >= 16384 /\ last_op.addr <= 16407) =>
        /\ last_op.addr = 16406 => last_op.cb = <<>>
        /\ (last_op.addr # 16406 /\ apu_write_cb # 0) =>
              last_op.cb = <<<<last_op.addr, last_op.val>>>>
        /\ BusRead(nes_memory, file, last_op.addr).value = last_op.val

\* $4017 was stored to while a callback was registered.
C12_Witness ==
    /\ active_nsf_file # 0 /\ apu_write_cb # 0
    /\ last_op.op = "write" /\ last_op.addr = 16407
    /\ last_op.cb = <<<<16407, 255>>>>

\* Nothing answers a store at the address: it is not in $0000-$07FF,
\* $4000-$4017 or $5FF8-$5FFF.
StoreIgnoredAt(address) ==
    /\ address > 2047
    /\ address < 16384 \/ address > 16407
    /\ address < 24568 \/ address > 24575

\* Nothing answers a read at the address: it is below $8000 and in none of
\* $0000-$07FF, $1000-$107F, $4000-$4017 and $5FF8-$5FFF.
ReadUnmappedAt(address) ==
    /\ StoreIgnoredAt(address)
    /\ address < 4096 \/ address > 4223
    /\ address < 32768

\* C14: a store to an address outside $0000-$07FF, $4000-$4017 and
\* $5FF8-$5FFF changes nothing of the memory image and the bank cache, makes
\* no APU callback and loads no bank; a read of an address in no mapped range
\* returns 0.
C14_IgnoredWrites ==
    /\ [][(active_nsf_file # 0 /\ last_op'.op = "write"
              /\ StoreIgnoredAt(last_op'.addr)) =>
             /\ nes_memory' = nes_memory
             /\ last_op'.cb = <<>> /\ last_op'.loads = 0
             /\ UNCHANGED <<aborted, heap_overrun>>]_vars
    /\ []((last_op.op = "read" /\ ReadUnmappedAt(last_op.addr)) => last_op.val = 0)

\* A store to $8000 was made while a file was being played.
C14_Witness ==
    /\ active_nsf_file # 0 /\ init_ok /\ apu_write_cb # 0
    /\ last_op.op = "write" /\ last_op.addr = 32768

\* What the loaded file holds at the 6502 address: the byte of its body at
\* address - load_address, or 0 outside the body.
BodyByteAt(f, address) ==
    LET L == nsf_read_header_impl(f).header.load_address
        n == FileSize(f) - 128
    IN IF L <= address /\ address < L + n THEN FileByte(f, 128 + (address - L)) ELSE 0

\* C15: right after the nsf_playback_init of a file without bankswitching
\* (load address at or above $8000, body not empty) has loaded the ROM, a
\* read6502 of every address a of $8000-$FFF9 returns the byte of the body
\* at a - load_address, and 0 below the load address and past the body.
C15_ContiguousLoadMapping ==
    ( /\ active_nsf_file # 0 /\ ~aborted
      /\ last_op.op = "init" /\ last_op.ret = ESP_OK
      /\ ~nsf_has_bank_switching(header) ) =>
        \A a \in 32768..65529 :
            BusRead(nes_memory, file, a).value = BodyByteAt(file, a)

\* The file loading at $8010 was loaded: $800F reads 0, $8010 and $801F read
\* the first and the last byte of the body, $8020 reads 0.
C15_Witness ==
    /\ active_nsf_file # 0 /\ file = "padded"
    /\ last_op.op = "init" /\ last_op.ret = ESP_OK
    /\ BusRead(nes_memory, file, 32783).value = 0
    /\ BusRead(nes_memory, file, 32784).value = FileByte(file, 128)
    /\ BusRead(nes_memory, file, 32799).value = FileByte(file, 143)
    /\ BusRead(nes_memory, file, 32800).value = 0

(***************************************************************************)
(* Bank data.                                                              *)
(***************************************************************************)
ProbeOffsets == {0, 1, 255, 256, 3839, 3840, 4095}

\* The byte the offset law puts at offset o of a slot loaded with the bank:
\* bank 0 starts at file offset $80 and lands at slot offset padding, bank
\* b > 0 starts at file offset $80 + (4096 - padding) + 4096 * (b - 1);
\* what the file does not cover is 0.
BankByte(f, padding, bank, o) ==
    LET k == IF bank = 0
             THEN 128 + (o - padding)
             ELSE 128 + (4096 - padding) + 4096 * (bank - 1) + o
    IN IF (bank = 0 /\ o < padding) \/ k >= FileSize(f) THEN 0 ELSE FileByte(f, k)

\* What read6502 returns through window w at the probe offsets.
WindowShows(w, bank) ==
    \A o \in ProbeOffsets :
        BusRead(nes_memory, file, 32768 + 4096 * w + o).value =
            BankByte(file, header.load_address % 4096, bank, o)

\* The file with load address $8000 and initial banks 0..7 was set up
\* (load(0,0) .. load(7,7) into the empty cache) and the tune then stored 8
\* to $5FF8, 9 to $5FF9 and 10 to $5FFA (load(0,8), load(1,9), load(2,10)).
LruScenarioDone ==
    /\ active_nsf_file # 0 /\ ~aborted /\ file = "seq" /\ init_ok
    /\ last_op.op = "write" /\ last_op.addr = 24570 /\ last_op.val = 10
    /\ last_op.loads = 1 /\ last_op.load_ret = ESP_OK
    /\ nes_memory.bank_regs =
          [i \in Blocks |-> CASE i = 0 -> 8 [] i = 1 -> 9 [] i = 2 -> 10 [] OTHER -> 0]
    /\ UseSeq(nes_memory) = <<10, 9, 8, 7, 6, 5, 4, 3, 2, 1>>

\* C13 as stated: after the scenario a read from window 0 returns the data
\* of bank 10.
C13_Window0ShowsBank10 == LruScenarioDone => WindowShows(0, 10)

\* C13 as amended: after the scenario bank 0 is the bank evicted, a read
\* from window 2 returns the data of bank 10 and a read from window 0 the
\* data of bank 8.
C13_Window2ShowsBank10 ==
    LruScenarioDone =>
        /\ CachedBanks(nes_memory) = 1..10
        /\ WindowShows(2, 10)
        /\ WindowShows(0, 8)

C13_Witness ==
    /\ LruScenarioDone
    /\ nes_memory.rom_block[2] = 0 /\ nes_memory.rom_block[0] = 8

\* C16 (P6): every loaded slot holds the bytes the offset law gives for its
\* bank: bank 0 from file offset $80 at slot offset padding, bank b > 0 from
\* file offset $80 + (4096 - padding) + 4096 * (b - 1) at slot offset 0, at
\* most to the end of the slot or of the file, and 0 everywhere else.
C16_BankOffsetLaw ==
    Bankswitched =>
        \A s \in LoadedSlots(nes_memory), o \in ProbeOffsets :
            SlotByte(file, nes_memory.rom_data[s], o) =
                BankByte(file, header.load_address % 4096, nes_memory.rom_bank_id[s], o)

\* With load address $8F00: bank 0 (256 bytes behind 3840 of padding), bank 3
\* (cut short by the end of the file) and bank 8 (past the end of the file)
\* are loaded, the last by a store to a bank register.
C16_Witness ==
    /\ Bankswitched /\ file = "highpad" /\ header.load_address % 4096 = 3840
    /\ {0, 3, 8} \subseteq CachedBanks(nes_memory)
    /\ last_op.op = "write" /\ last_op.loads = 1 /\ last_op.load_ret = ESP_OK
    /\ \E s \in LoadedSlots(nes_memory) :
          /\ nes_memory.rom_bank_id[s] = 3
          /\ SlotByte(file, nes_memory.rom_data[s], 3839) # 0
          /\ SlotByte(file, nes_memory.rom_data[s], 3840) = 0

(***************************************************************************)
(* Eviction, bank selection, cleanup and the bounds of the ROM buffer.     *)
(***************************************************************************)
\* The slot an evicting load takes: the first one whose bank ID is the bank
\* at the tail of the use order.
EvictedSlot(m) == FindSlotOfBank(m, m.rom_bank_use_order[ROM_BANK_COUNT - 1])

\* C17: when a load into window w evicts the bank of slot s, every other
\* window that pointed at s is NULL afterwards and every other window that
\* pointed elsewhere keeps its pointer and its recorded bank ID.
C17_EvictionClearsStale ==
    [][(EvictingLoadStep /\ last_op'.load_ret = ESP_OK) =>
          \A i \in Blocks \ {last_op'.addr - BANK_REG_FIRST} :
              IF nes_memory.rom_block[i] = EvictedSlot(nes_memory)
              THEN nes_memory'.rom_block[i] = NULL
              ELSE /\ nes_memory'.rom_block[i] = nes_memory.rom_block[i]
                   /\ nes_memory'.rom_block_bank_id[i] =
                          nes_memory.rom_block_bank_id[i]]_vars

\* C18: during the playback of a bankswitched file, after a store of v to
\* $5FF8+i that met no file error, window i is mapped to bank v: its recorded
\* bank ID is v and it points at a loaded slot holding bank v.
C18_BankWriteSelects ==
    ( /\ Bankswitched /\ init_ok
      /\ last_op.op = "write" /\ IsBankReg(last_op.addr)
      /\ (last_op.loads = 0 \/ last_op.load_ret = ESP_OK) ) =>
        LET i == last_op.addr - BANK_REG_FIRST IN
        /\ nes_memory.rom_block[i] # NULL
        /\ nes_memory.rom_block_bank_id[i] = last_op.val
        /\ nes_memory.rom_bank_loaded[nes_memory.rom_block[i]] # 0
        /\ nes_memory.rom_bank_id[nes_memory.rom_block[i]] = last_op.val

\* C19: an nsf_open of a file that cannot be opened or whose header is
\* rejected passes the assertion of nsf_free (the process goes on), returns
\* an error and registers nothing.
C19_FailedOpenCleansUp ==
    (last_op.op = "open" /\ ~ValidFile(last_op.fname)) =>
        /\ ~aborted
        /\ last_op.ret # ESP_OK
        /\ last_op.ret # ESP_ERR_INVALID_STATE => active_nsf_file = 0

\* C20: no bank load has zeroed or filled memory outside the ROM buffer, and
\* every mapped window points at a slot inside it (8 slots after a
\* contiguous load, 10 after a bankswitched one).
C20_RomBufferBounds ==
    (active_nsf_file # 0 /\ init_ok) =>
        /\ ~heap_overrun
        /\ \A i \in Blocks :
              nes_memory.rom_block[i] # NULL =>
                  (nes_memory.rom_block[i] + 1) * 4096 <=
                      RomSlots(nes_memory.rom) * 4096

(***************************************************************************)
(* Recovery after a failed bank load.                                      *)
(***************************************************************************)
\* The store just made called nsf_load_rom_bank for a bank the medium can
\* deliver, after the tune had walked over a bank it cannot (the load of
\* that bank failed with a read error earlier in this playback).
GoodLoadAfterFailedLoad ==
    /\ Bankswitched /\ init_ok
    /\ last_op.op = "write" /\ IsBankReg(last_op.addr) /\ last_op.loads = 1
    /\ last_op.val \notin BadBanks
    /\ \E b \in BadBanks : FirstWalkBank <= b /\ b < last_op.val

\* C21: in a bankswitched file, once a bank load has failed with a file
\* error, every later nsf_load_rom_bank for a valid register whose seek and
\* read succeed returns ESP_OK, whatever reads and stores came in between.
C21_RecoveryAfterFailedLoad ==
    GoodLoadAfterFailedLoad => last_op.load_ret = ESP_OK

====
